---- MODULE Spec2Model ----
(***************************************************************************)
(* Bookmark synchronization core of the Smart Bookmark App:                *)
(* src/components/bookmark-manager.tsx (BookmarkManager, lines 255-679)     *)
(* against the store of src/unnamed/part_000 (table bookmarks, its row     *)
(* level security policies and its insert trigger).                        *)
(*                                                                         *)
(* Text is modelled as a sequence of one-character strings, so that        *)
(* trimming and URL parsing are computed and not assumed.                  *)
(***************************************************************************)
EXTENDS Integers, Sequences, FiniteSets, TLC

None == "none"
\* no request in flight
Idle == [stage |-> "idle"]
\* deleteTarget = null
NoTarget == [id |-> 0, title |-> <<>>, url |-> <<>>, created_at |-> 0]
\* no channel object open
Closed == {}

\* ------------------------------------------------------------------ bounds
\* rows the store ever inserts
MaxRows == 3
\* reload triggers one tab has outstanding at a time: its select requests in
\* flight plus the change-feed events and broadcast messages queued for it
MaxInFlight == 2

\* ------------------------------------------------------------------ text
Letters == {"a", "b", "f", "h", "p", "s", "t", "A", "H", "P", "T"}

IsSpace(c) == c = " "

Lower(c) ==
  CASE c = "A" -> "a"
    [] c = "H" -> "h"
    [] c = "P" -> "p"
    [] c = "T" -> "t"
    [] OTHER -> c

LowerAll(s) == [i \in 1..Len(s) |-> Lower(s[i])]

RECURSIVE TrimStart(_)
TrimStart(s) == IF s # <<>> /\ IsSpace(Head(s)) THEN TrimStart(Tail(s)) ELSE s

RECURSIVE TrimEnd(_)
TrimEnd(s) ==
  IF s # <<>> /\ IsSpace(s[Len(s)]) THEN TrimEnd(SubSeq(s, 1, Len(s) - 1)) ELSE s

\* String.prototype.trim
trim(s) == TrimEnd(TrimStart(s))

\* String.prototype.includes
Includes(s, q) ==
  \E i \in 0..(Len(s) - Len(q)) : SubSeq(s, i + 1, i + Len(q)) = q

\* the weight of a character in a collation: the space before the letters,
\* the letters in the order of the alphabet whatever their case
Rank(c) ==
  CASE Lower(c) = " " -> 0
    [] Lower(c) = "a" -> 1
    [] Lower(c) = "b" -> 2
    [] Lower(c) = "f" -> 3
    [] Lower(c) = "h" -> 4
    [] Lower(c) = "p" -> 5
    [] Lower(c) = "s" -> 6
    [] Lower(c) = "t" -> 7
    [] OTHER -> 8

\* the comparison of two texts by the weights of their characters
RECURSIVE CompareRanks(_, _)
CompareRanks(a, b) ==
  IF a = <<>> /\ b = <<>> THEN 0
  ELSE IF a = <<>> THEN -1
  ELSE IF b = <<>> THEN 1
  ELSE IF Rank(Head(a)) < Rank(Head(b)) THEN -1
  ELSE IF Rank(Head(a)) > Rank(Head(b)) THEN 1
  ELSE CompareRanks(Tail(a), Tail(b))

\* the comparison of two texts of equal weights by case: at the first
\* difference the lowercase letter comes first
RECURSIVE CompareCase(_, _)
CompareCase(a, b) ==
  IF a = <<>> \/ b = <<>> THEN 0
  ELSE IF Head(a) = Head(b) THEN CompareCase(Tail(a), Tail(b))
  ELSE IF Head(a) = Lower(Head(a)) THEN -1
  ELSE 1

\* String.prototype.localeCompare in the default collation: by the letters,
\* then by case
localeCompare(a, b) ==
  IF CompareRanks(a, b) # 0 THEN CompareRanks(a, b) ELSE CompareCase(a, b)

\* index of the first element of s that is in set cs, 0 when there is none
RECURSIVE IndexFrom(_, _, _)
IndexFrom(s, cs, i) ==
  IF i > Len(s) THEN 0 ELSE IF s[i] \in cs THEN i ELSE IndexFrom(s, cs, i + 1)

IndexOf(s, cs) == IndexFrom(s, cs, 1)

RECURSIVE SkipAll(_, _)
SkipAll(s, cs) == IF s # <<>> /\ Head(s) \in cs THEN SkipAll(Tail(s), cs) ELSE s

RECURSIVE Concat(_)
Concat(ss) == IF ss = <<>> THEN <<>> ELSE Head(ss) \o Concat(Tail(ss))

\* ------------------------------------------------------------------ URL
\* new URL(input) without a base, on the alphabet of the model: the scheme is
\* lowercased; a special scheme drops the slashes after the colon, needs a host,
\* lowercases it and gets the path "/" when none is written; any other scheme
\* keeps the rest as an opaque path.  ok = FALSE is the TypeError.
SpecialSchemes ==
  { <<"h","t","t","p">>, <<"h","t","t","p","s">>, <<"f","t","p">> }

SchemeChars == Letters \cup {"+", "-", "."}

PercentEncode(s) ==
  Concat([i \in 1..Len(s) |-> IF IsSpace(s[i]) THEN <<"%","2","0">> ELSE <<s[i]>>])

ParseSpecial(scheme, rest) ==
  LET afterSlashes == SkipAll(rest, {"/", "\\"})
      cut == IndexOf(afterSlashes, {"/", "?", "#"})
      authority == IF cut = 0 THEN afterSlashes ELSE SubSeq(afterSlashes, 1, cut - 1)
      tail == IF cut = 0 THEN <<>> ELSE SubSeq(afterSlashes, cut, Len(afterSlashes))
      colon == IndexOf(authority, {":"})
      host == IF colon = 0 THEN authority ELSE SubSeq(authority, 1, colon - 1)
      port == IF colon = 0 THEN <<>> ELSE SubSeq(authority, colon + 1, Len(authority))
      path == IF tail = <<>> \/ Head(tail) # "/" THEN <<"/">> \o tail ELSE tail
  IN IF host = <<>> \/ port # <<>> \/ \E i \in 1..Len(host) : IsSpace(host[i])
       THEN [ok |-> FALSE, protocol |-> <<>>, href |-> <<>>]
       ELSE [ok |-> TRUE,
             protocol |-> scheme \o <<":">>,
             href |-> scheme \o <<":", "/", "/">> \o LowerAll(host) \o PercentEncode(path)]

ParseURL(input) ==
  LET s == trim(input)
      colon == IndexOf(s, {":"})
      scheme == IF colon = 0 THEN <<>> ELSE LowerAll(SubSeq(s, 1, colon - 1))
      rest == IF colon = 0 THEN <<>> ELSE SubSeq(s, colon + 1, Len(s))
  IN IF colon <= 1 \/ s[1] \notin Letters
          \/ \E i \in 1..(colon - 1) : s[i] \notin SchemeChars
       THEN [ok |-> FALSE, protocol |-> <<>>, href |-> <<>>]
       ELSE IF scheme \in SpecialSchemes
         THEN ParseSpecial(scheme, rest)
         ELSE [ok |-> TRUE, protocol |-> scheme \o <<":">>,
               href |-> scheme \o <<":">> \o rest]

HttpProtocol == <<"h","t","t","p",":">>
HttpsProtocol == <<"h","t","t","p","s",":">>

\* ------------------------------------------------------------------ inputs
Users == {"u1", "u2"}
Tabs == {"t1", "t2"}

\* what a user can type into the title field
TitleInputs == { <<" ">>, <<" ", "a", " ">> }

\* what a user can type into the search field
SearchInputs == { <<>>, <<" ">>, <<"a", " ">>, <<"A">>, <<"P", "s">> }

\* the options of the sort select
SortModes == { "latest", "oldest", "az" }

\* the titles and urls of the rows a listing is computed from: as stored,
\* trimmed and canonical
ViewTitles == { <<"a", "b">>, <<"A">>, <<"T">> }
ViewUrls ==
  { <<"h", "t", "t", "p", ":", "/", "/", "a", "/">>,
    <<"h", "t", "t", "p", "s", ":", "/", "/", "b", "/">> }

\* what a user can type into the url field
UrlInputs ==
  { <<" ">>,
    <<"a", ".", "b", "/", "p">>,
    <<"f", "t", "p", ":", "/", "/", "a">>,
    <<" ", "H", "T", "T", "P", ":", "/", "/", "A", " ">> }

\* ------------------------------------------------------------------ messages
MsgRequired == "Title and URL are required."
MsgInvalidUrl == "Please enter a valid URL."
MsgScheme == "URL must start with http:// or https://"
\* the messages of the error objects the store client returns
MsgFetch == "fetchError.message"
MsgInsert == "insertError.message"
MsgDelete == "deleteError.message"
MsgSignOut == "signOutError.message"
MsgRealtime == "Realtime connection failed. Using tab sync fallback."

\* ------------------------------------------------------------------ state
VARIABLES
  rows,          \* the table public.bookmarks: a set of rows
  nextId,        \* the next id and created_at the store assigns
  bcSupported,   \* "BroadcastChannel" in window
  userId,        \* props.userId of each tab's component (None: not signed in)
  bookmarks,     \* useState<Bookmark[]>: the items of each tab
  loading,       \* useState(false): an insert is in flight
  error,         \* useState<string | null>
  deleteTarget,  \* useState<Bookmark | null>: the pending delete
  deleteLoading, \* useState(false): a delete is in flight
  search,        \* useState(""): the text of the search field
  sortBy,        \* useState("latest"): "latest", "oldest" or "az"
  addReq,        \* the insert request of each tab's handleAdd, Idle when none
  delReq,        \* the delete request of each tab's handleDelete, Idle when none
  reloads,       \* the select requests of each tab's loadBookmarks, in flight
  channel,       \* the realtime subscriptions each tab holds open, by name
  tabChannel,    \* the BroadcastChannel names each tab listens on
  feedQ,         \* change-feed events queued for each tab's subscription
  tabQ,          \* broadcast messages queued for each tab's listener
  session,       \* the session of the browser the tabs share (None: signed out)
  signingOut,    \* useState(false): a sign-out is in flight
  refreshing,    \* a router.refresh() of the tab is outstanding
  lastLoad,      \* history: how the loadBookmarks that completed last ended
  overtaken,     \* history: how many of the oldest requests of reloads were
                 \* sent before a loadBookmarks that has completed with data
  errAt,         \* history, while error is that of a loadBookmarks: how many
                 \* requests of reloads were sent before the one that failed
  hist           \* history: the create each tab submitted last (see handleAddSettled)

vars == << rows, nextId, bcSupported, userId, bookmarks, loading, error,
           deleteTarget, deleteLoading, search, sortBy, addReq, delReq, reloads, channel,
           tabChannel, feedQ, tabQ, session, signingOut, refreshing, lastLoad,
           overtaken, errAt, hist >>

storeVars == << rows, nextId >>
viewVars == << bookmarks, loading, error, deleteTarget, deleteLoading >>
wireVars == << channel, tabChannel >>
pageVars == << bcSupported, session, signingOut, refreshing >>
queryVars == << search, sortBy >>
loadVars == << lastLoad, overtaken, errAt >>

\* ------------------------------------------------------------------ store
\* the columns a select("id,title,url,created_at") returns
Client(r) ==
  [id |-> r.id, title |-> r.title, url |-> r.url, created_at |-> r.created_at]

\* policy "Users can read own bookmarks": using (auth.uid() = user_id)
Visible(uid) == { r \in rows : r.user_id = uid }

\* an order by created_at that puts the oldest row first
RECURSIVE OrderAsc(_)
OrderAsc(rs) ==
  IF rs = {} THEN <<>>
  ELSE LET low == CHOOSE r \in rs : \A o \in rs : o.created_at >= r.created_at
       IN <<Client(low)>> \o OrderAsc(rs \ {low})

\* .order("created_at", { ascending: false })
RECURSIVE OrderDesc(_)
OrderDesc(rs) ==
  IF rs = {} THEN <<>>
  ELSE LET top == CHOOSE r \in rs : \A o \in rs : o.created_at <= r.created_at
       IN <<Client(top)>> \o OrderDesc(rs \ {top})

\* the data of a successful select by a caller with identity uid
SelectAll(uid) == OrderDesc(Visible(uid))

\* trigger set_bookmark_user_id: new.user_id := auth.uid(); id and created_at
\* take their column defaults
NewRowFirstUser(uid, title, url) ==
  [id |-> nextId, user_id |-> "u1", title |-> title, url |-> url,
   created_at |-> nextId]

NewRow(uid, title, url) ==
  [id |-> nextId, user_id |-> uid, title |-> title, url |-> url,
   created_at |-> nextId]

\* policy "Users can delete own bookmarks": the rows a delete().eq("id", id)
\* of caller uid removes
Deletable(uid, id) == { r \in rows : r.id = id /\ r.user_id = uid }

\* the tabs whose subscription is sent the change of row r: the subscription
\* names no filter; an insert is sent to the sessions the select policy lets
\* see the row, a delete to every subscription of the table
InsertAudience(r) == { t \in Tabs : channel[t] # Closed /\ userId[t] = r.user_id }
DeleteAudience(r) == { t \in Tabs : channel[t] # Closed }

Enqueue(q, audience) == [t \in Tabs |-> IF t \in audience THEN q[t] + 1 ELSE q[t]]

\* the reload triggers tab t has outstanding
Outstanding(t) == Len(reloads[t]) + feedQ[t] + tabQ[t]

\* every tab of the audience can take n more
HasRoom(audience, n) == \A t \in audience : Outstanding(t) + n <= MaxInFlight

\* ------------------------------------------------------------------ helpers
\* one channel name for every user
ChannelNameShared(uid) == <<"bookmarks-sync-">>

ChannelName(uid) == <<"bookmarks-sync-", uid>>
FeedName(uid) == <<"bookmarks-", uid>>

Ids(items) == { items[i].id : i \in 1..Len(items) }

RemoveAt(s, i) == SubSeq(s, 1, i - 1) \o SubSeq(s, i + 1, Len(s))

\* a removal that also drops what follows the item
RECURSIVE FilterOutRest(_, _)
FilterOutRest(items, id) ==
  IF items = <<>> THEN <<>>
  ELSE IF Head(items).id = id THEN <<>>
  ELSE <<Head(items)>> \o FilterOutRest(Tail(items), id)

\* current.filter((bookmark) => bookmark.id !== id)
RECURSIVE FilterOut(_, _)
FilterOut(items, id) ==
  IF items = <<>> THEN <<>>
  ELSE IF Head(items).id = id THEN FilterOut(Tail(items), id)
  ELSE <<Head(items)>> \o FilterOut(Tail(items), id)

\* created_at.localeCompare of two timestamps the store wrote
CompareTime(a, b) == IF a < b THEN -1 ELSE IF a > b THEN 1 ELSE 0

\* a comparator that knows the default order only
CompareLatestOnly(mode, a, b) == CompareTime(b.created_at, a.created_at)

\* the comparator of sortedBookmarks
Compare(mode, a, b) ==
  IF mode = "oldest" THEN CompareTime(a.created_at, b.created_at)
  ELSE IF mode = "az" THEN localeCompare(a.title, b.title)
  ELSE CompareTime(b.created_at, a.created_at)

\* Array.prototype.sort is stable: x, which stood before the items of s,
\* goes before the first of them it does not come after
RECURSIVE InsertSorted(_, _, _)
InsertSorted(mode, x, s) ==
  IF s = <<>> THEN <<x>>
  ELSE IF Compare(mode, x, Head(s)) <= 0 THEN <<x>> \o s
  ELSE <<Head(s)>> \o InsertSorted(mode, x, Tail(s))

\* [...bookmarks].sort(...)
RECURSIVE sortedBookmarks(_, _)
sortedBookmarks(items, mode) ==
  IF items = <<>> THEN <<>>
  ELSE InsertSorted(mode, Head(items), sortedBookmarks(Tail(items), mode))

\* the predicate of sortedBookmarks.filter for the text q of the search field
Matches(bookmark, q) ==
  LET query == LowerAll(trim(q))
  IN IF query = <<>> THEN TRUE
     ELSE \/ Includes(LowerAll(bookmark.title), query)
          \/ Includes(LowerAll(bookmark.url), query)

\* the list the page renders
filteredBookmarks(items, q, mode) ==
  SelectSeq(sortedBookmarks(items, mode), LAMBDA bookmark : Matches(bookmark, q))

\* a select request as loadBookmarks issues it
Request(uid) == [stage |-> "sent", uid |-> uid, data |-> <<>>]

\* a loadBookmarks without the check of userId
loadBookmarksUnguarded(t, rl) == [rl EXCEPT ![t] = Append(@, Request(session))]

\* loadBookmarks up to its await: the select request it issues, none without
\* a userId
loadBookmarks(t, rl) ==
  IF userId[t] = None THEN rl
  ELSE [rl EXCEPT ![t] = Append(@, Request(session))]

\* notifyTabs of a closure whose userId is uid: one message to every listener
\* open on the channel of that name
Listeners(uid) ==
  IF uid = None \/ ~bcSupported THEN {}
  ELSE { x \in Tabs : ChannelName(uid) \in tabChannel[x] }

\* a notifyTabs that posts its message twice
notifyTabsTwice(uid, q) == Enqueue(Enqueue(q, Listeners(uid)), Listeners(uid))

notifyTabs(uid, q) == Enqueue(q, Listeners(uid))

\* hist before any create is submitted
NoCreate == [rawTitle |-> <<>>, rawUrl |-> <<>>, before |-> <<>>, valid |-> FALSE]

\* ------------------------------------------------------------------ Init
Blank ==
  /\ bcSupported \in BOOLEAN
  /\ userId = [t \in Tabs |-> None]
  /\ bookmarks = [t \in Tabs |-> <<>>]
  /\ loading = [t \in Tabs |-> FALSE]
  /\ error = [t \in Tabs |-> None]
  /\ deleteTarget = [t \in Tabs |-> NoTarget]
  /\ deleteLoading = [t \in Tabs |-> FALSE]
  /\ search = [t \in Tabs |-> <<>>]
  /\ sortBy = [t \in Tabs |-> "latest"]
  /\ addReq = [t \in Tabs |-> Idle]
  /\ delReq = [t \in Tabs |-> Idle]
  /\ reloads = [t \in Tabs |-> <<>>]
  /\ channel = [t \in Tabs |-> Closed]
  /\ tabChannel = [t \in Tabs |-> Closed]
  /\ feedQ = [t \in Tabs |-> 0]
  /\ tabQ = [t \in Tabs |-> 0]
  /\ session = "u1"
  /\ signingOut = [t \in Tabs |-> FALSE]
  /\ refreshing = [t \in Tabs |-> FALSE]
  /\ lastLoad = [t \in Tabs |-> "none"]
  /\ overtaken = [t \in Tabs |-> 0]
  /\ errAt = [t \in Tabs |-> 0]
  /\ hist = [t \in Tabs |-> NoCreate]

\* an empty table, no page open yet
Init ==
  /\ rows = {}
  /\ nextId = 1
  /\ Blank

\* the table after MaxRows accepted inserts of user u1, no page open yet
SeedTitle == <<"a">>
SeedUrl == <<"h", "t", "t", "p", ":", "/", "/", "a", "/">>
InitSeeded ==
  /\ rows = { [id |-> i, user_id |-> "u1", title |-> SeedTitle, url |-> SeedUrl,
               created_at |-> i] : i \in 1..MaxRows }
  /\ nextId = MaxRows + 1
  /\ Blank

\* a table of MaxRows rows of user u1 with any of the titles and urls, no
\* page open yet
InitView ==
  /\ \E ts \in [1..MaxRows -> ViewTitles], us \in [1..MaxRows -> ViewUrls] :
       rows = { [id |-> i, user_id |-> "u1", title |-> ts[i], url |-> us[i],
                 created_at |-> i] : i \in 1..MaxRows }
  /\ nextId = MaxRows + 1
  /\ Blank

\* the list tab t renders: filteredBookmarks of its state
Listing(t) == filteredBookmarks(bookmarks[t], search[t], sortBy[t])

\* a mount that opens the tab channel without looking for BroadcastChannel
MountWithoutDetection(t, u) ==
  /\ userId[t] = None
  /\ u = session
  /\ userId' = [userId EXCEPT ![t] = u]
  /\ reloads' = [reloads EXCEPT ![t] = <<Request(u)>>]
  /\ addReq' = [addReq EXCEPT ![t] = Idle]
  /\ delReq' = [delReq EXCEPT ![t] = Idle]
  /\ channel' = [channel EXCEPT ![t] = {FeedName(u)}]
  /\ tabChannel' = [tabChannel EXCEPT ![t] = {ChannelName(u)}]
  /\ UNCHANGED << storeVars, pageVars, queryVars, viewVars, feedQ, tabQ, loadVars, hist >>

\* a mount that subscribes and never loads
MountWithoutReload(t, u) ==
  /\ userId[t] = None
  /\ u = session
  /\ userId' = [userId EXCEPT ![t] = u]
  /\ reloads' = [reloads EXCEPT ![t] = <<>>]
  /\ addReq' = [addReq EXCEPT ![t] = Idle]
  /\ delReq' = [delReq EXCEPT ![t] = Idle]
  /\ channel' = [channel EXCEPT ![t] = {FeedName(u)}]
  /\ tabChannel' = [tabChannel EXCEPT ![t] = IF bcSupported THEN {ChannelName(u)} ELSE Closed]
  /\ UNCHANGED << storeVars, pageVars, queryVars, viewVars, feedQ, tabQ, loadVars, hist >>

\* ------------------------------------------------------------------ actions
\* The page is loaded in tab t under the session of user u and the component
\* mounts: useEffect issues loadBookmarks, subscribes to the change feed and,
\* where BroadcastChannel exists, opens the tab channel.  Whatever the page
\* shown before in the tab still awaited is gone with it.
Mount(t, u) ==
  /\ userId[t] = None
  /\ u = session
  /\ userId' = [userId EXCEPT ![t] = u]
  /\ reloads' = [reloads EXCEPT ![t] = <<Request(u)>>]
  /\ addReq' = [addReq EXCEPT ![t] = Idle]
  /\ delReq' = [delReq EXCEPT ![t] = Idle]
  /\ channel' = [channel EXCEPT ![t] = {FeedName(u)}]
  /\ tabChannel' = [tabChannel EXCEPT ![t] = IF bcSupported THEN {ChannelName(u)} ELSE Closed]
  /\ UNCHANGED << storeVars, pageVars, queryVars, viewVars, feedQ, tabQ, loadVars, hist >>

\* the checks of handleAdd without the check of the protocol
AddOutcomeAnyScheme(ti, u) ==
  IF trim(ti) = <<>> \/ trim(u) = <<>> THEN [ok |-> FALSE, msg |-> MsgRequired]
  ELSE IF ~ParseURL(trim(u)).ok THEN [ok |-> FALSE, msg |-> MsgInvalidUrl]
  ELSE [ok |-> TRUE, msg |-> None]

\* the checks of handleAdd up to its first return or await
AddOutcome(ti, u) ==
  LET parsed == ParseURL(trim(u))
  IN IF trim(ti) = <<>> \/ trim(u) = <<>> THEN [ok |-> FALSE, msg |-> MsgRequired]
     ELSE IF ~parsed.ok THEN [ok |-> FALSE, msg |-> MsgInvalidUrl]
     ELSE IF parsed.protocol # HttpProtocol /\ parsed.protocol # HttpsProtocol
       THEN [ok |-> FALSE, msg |-> MsgScheme]
     ELSE [ok |-> TRUE, msg |-> None]

\* a payload that carries the text as typed
InsertPayloadRaw(ti, u) == [title |-> ti, url |-> u]

\* the payload of the insert: { title: title.trim(), url: parsedUrl.toString() }
InsertPayload(ti, u) == [title |-> trim(ti), url |-> ParseURL(trim(u)).href]

\* no reload trigger, create or delete of tab t is outstanding
Quiet(t) ==
  /\ reloads[t] = <<>>
  /\ feedQ[t] = 0
  /\ tabQ[t] = 0
  /\ addReq[t] = Idle
  /\ delReq[t] = Idle

\* a form whose Save button stays enabled while an insert is in flight
submitWhileLoading(t, ti, u) ==
  /\ userId[t] # None
  /\ IF AddOutcome(ti, u).ok
       THEN /\ error' = [error EXCEPT ![t] = None]
            /\ loading' = [loading EXCEPT ![t] = TRUE]
            /\ addReq' = [addReq EXCEPT ![t] =
                           [stage |-> "sent", uid |-> session, by |-> userId[t],
                            title |-> InsertPayload(ti, u).title,
                            url |-> InsertPayload(ti, u).url]]
       ELSE /\ error' = [error EXCEPT ![t] = AddOutcome(ti, u).msg]
            /\ UNCHANGED << loading, addReq >>
  /\ UNCHANGED << storeVars, pageVars, queryVars, userId, bookmarks, deleteTarget,
                  deleteLoading, delReq, reloads, wireVars, feedQ, tabQ, loadVars >>

\* handleAdd up to its first return or await
submit(t, ti, u) ==
  /\ userId[t] # None
  /\ ~loading[t]
  /\ IF AddOutcome(ti, u).ok
       THEN /\ error' = [error EXCEPT ![t] = None]
            /\ loading' = [loading EXCEPT ![t] = TRUE]
            /\ addReq' = [addReq EXCEPT ![t] =
                           [stage |-> "sent", uid |-> session, by |-> userId[t],
                            title |-> InsertPayload(ti, u).title,
                            url |-> InsertPayload(ti, u).url]]
       ELSE /\ error' = [error EXCEPT ![t] = AddOutcome(ti, u).msg]
            /\ UNCHANGED << loading, addReq >>
  /\ UNCHANGED << storeVars, pageVars, queryVars, userId, bookmarks, deleteTarget,
                  deleteLoading, delReq, reloads, wireVars, feedQ, tabQ, loadVars >>

\* no reload trigger, create or delete of tab t is outstanding and its items
\* mirror the store
Settled(t) == Quiet(t) /\ userId[t] # None /\ bookmarks[t] = SelectAll(userId[t])

\* the form is submitted
handleAdd(t, ti, u) == submit(t, ti, u) /\ UNCHANGED hist

\* the form is submitted while nothing of the tab is outstanding
handleAddQuiet(t, ti, u) == Quiet(t) /\ submit(t, ti, u) /\ UNCHANGED hist

\* the form is submitted while the tab is settled; hist records what was typed
\* and the items of that moment
handleAddSettled(t, ti, u) ==
  /\ Settled(t)
  /\ submit(t, ti, u)
  /\ hist' = [hist EXCEPT ![t] = [rawTitle |-> ti, rawUrl |-> u,
                                  before |-> bookmarks[t],
                                  valid |-> AddOutcome(ti, u).ok]]

\* the store accepts the insert of tab t
StoreInsert(t) ==
  /\ addReq[t].stage = "sent"
  /\ addReq[t].uid # None
  /\ nextId <= MaxRows
  /\ LET r == NewRow(addReq[t].uid, addReq[t].title, addReq[t].url)
     IN /\ HasRoom(InsertAudience(r), 1)
        /\ rows' = rows \cup {r}
        /\ feedQ' = Enqueue(feedQ, InsertAudience(r))
  /\ addReq' = [addReq EXCEPT ![t].stage = "ok"]
  /\ nextId' = nextId + 1
  /\ UNCHANGED << pageVars, queryVars, userId, viewVars, delReq, reloads, wireVars, tabQ,
                  loadVars, hist >>

\* a rejected insert that reloads and notifies all the same
handleAddRejectedReloads(t) ==
  /\ addReq[t].stage = "sent"
  /\ loading' = [loading EXCEPT ![t] = FALSE]
  /\ error' = [error EXCEPT ![t] = MsgInsert]
  /\ addReq' = [addReq EXCEPT ![t] = Idle]
  /\ reloads' = loadBookmarks(t, reloads)
  /\ tabQ' = notifyTabs(addReq[t].by, tabQ)
  /\ UNCHANGED << storeVars, pageVars, queryVars, userId, bookmarks, deleteTarget,
                  deleteLoading, delReq, wireVars, feedQ, loadVars, hist >>

\* a rejected insert after which Save stays disabled
handleAddRejectedStaysLoading(t) ==
  /\ addReq[t].stage = "sent"
  /\ error' = IF userId[t] = None THEN error ELSE [error EXCEPT ![t] = MsgInsert]
  /\ addReq' = [addReq EXCEPT ![t] = Idle]
  /\ UNCHANGED << storeVars, pageVars, queryVars, userId, bookmarks, loading,
                  deleteTarget, deleteLoading, delReq, reloads, wireVars, feedQ,
                  tabQ, loadVars, hist >>

\* handleAdd after its await, insertError set; the setters of a component that
\* was unmounted meanwhile (the tab shows the signed-out page) change nothing
handleAddRejected(t) ==
  /\ addReq[t].stage = "sent"
  /\ loading' = [loading EXCEPT ![t] = FALSE]
  /\ error' = IF userId[t] = None THEN error ELSE [error EXCEPT ![t] = MsgInsert]
  /\ addReq' = [addReq EXCEPT ![t] = Idle]
  /\ UNCHANGED << storeVars, pageVars, queryVars, userId, bookmarks, deleteTarget,
                  deleteLoading, delReq, reloads, wireVars, feedQ, tabQ, loadVars, hist >>

\* handleAdd after its await, no insertError: loadBookmarks and notifyTabs
handleAddDone(t) ==
  /\ addReq[t].stage = "ok"
  /\ HasRoom(Listeners(addReq[t].by) \ {t}, 1)
  /\ HasRoom({t}, IF t \in Listeners(addReq[t].by) THEN 2 ELSE 1)
  /\ loading' = [loading EXCEPT ![t] = FALSE]
  /\ addReq' = [addReq EXCEPT ![t] = Idle]
  /\ reloads' = loadBookmarks(t, reloads)
  /\ tabQ' = notifyTabs(addReq[t].by, tabQ)
  /\ UNCHANGED << storeVars, pageVars, queryVars, userId, bookmarks, error, deleteTarget,
                  deleteLoading, delReq, wireVars, feedQ, loadVars, hist >>

\* the store answers a select of tab t
\* how many of the first n requests of a queue are left when request i is
\* taken out of it
Before(n, i) == IF i <= n THEN n - 1 ELSE n

StoreSelect(t, i) ==
  /\ i \in 1..Len(reloads[t])
  /\ reloads[t][i].stage = "sent"
  /\ reloads' = [reloads EXCEPT ![t][i].stage = "data",
                                ![t][i].data = SelectAll(reloads[t][i].uid)]
  /\ UNCHANGED << storeVars, pageVars, queryVars, userId, viewVars, addReq, delReq,
                  wireVars, feedQ, tabQ, loadVars, hist >>

\* a failed loadBookmarks that empties the list
loadBookmarksFailedClears(t, i) ==
  /\ i \in 1..Len(reloads[t])
  /\ reloads[t][i].stage = "sent"
  /\ reloads' = [reloads EXCEPT ![t] = RemoveAt(@, i)]
  /\ error' = [error EXCEPT ![t] = MsgFetch]
  /\ bookmarks' = [bookmarks EXCEPT ![t] = <<>>]
  /\ lastLoad' = [lastLoad EXCEPT ![t] = "failed"]
  /\ overtaken' = [overtaken EXCEPT ![t] = Before(@, i)]
  /\ errAt' = [errAt EXCEPT ![t] = i - 1]
  /\ UNCHANGED << storeVars, pageVars, queryVars, userId, loading, deleteTarget,
                  deleteLoading, addReq, delReq, wireVars, feedQ, tabQ, hist >>

\* loadBookmarks after its await, fetchError set
loadBookmarksFailed(t, i) ==
  /\ i \in 1..Len(reloads[t])
  /\ reloads[t][i].stage = "sent"
  /\ reloads' = [reloads EXCEPT ![t] = RemoveAt(@, i)]
  /\ error' = [error EXCEPT ![t] = MsgFetch]
  /\ lastLoad' = [lastLoad EXCEPT ![t] = "failed"]
  /\ overtaken' = [overtaken EXCEPT ![t] = Before(@, i)]
  /\ errAt' = [errAt EXCEPT ![t] = i - 1]
  /\ UNCHANGED << storeVars, pageVars, queryVars, userId, bookmarks, loading, deleteTarget,
                  deleteLoading, addReq, delReq, wireVars, feedQ, tabQ, hist >>

\* loadBookmarks after its await, no fetchError: setBookmarks(data ?? [])
loadBookmarksDone(t, i) ==
  /\ i \in 1..Len(reloads[t])
  /\ reloads[t][i].stage = "data"
  /\ reloads' = [reloads EXCEPT ![t] = RemoveAt(@, i)]
  /\ bookmarks' = [bookmarks EXCEPT ![t] = reloads[t][i].data]
  /\ lastLoad' = [lastLoad EXCEPT ![t] = "ok"]
  /\ overtaken' = [overtaken EXCEPT ![t] = IF Before(@, i) > i - 1 THEN Before(@, i) ELSE i - 1]
  /\ errAt' = [errAt EXCEPT ![t] = Before(@, i)]
  /\ UNCHANGED << storeVars, pageVars, queryVars, userId, loading, error, deleteTarget,
                  deleteLoading, addReq, delReq, wireVars, feedQ, tabQ, hist >>

\* the search field: setSearch(event.target.value)
setSearch(t, q) ==
  /\ userId[t] # None
  /\ search[t] # q
  /\ search' = [search EXCEPT ![t] = q]
  /\ UNCHANGED << storeVars, pageVars, sortBy, userId, viewVars, addReq, delReq,
                  reloads, wireVars, feedQ, tabQ, loadVars, hist >>

\* a sort select that sorts the list it holds
setSortBySortsItems(t, mode) ==
  /\ userId[t] # None
  /\ sortBy[t] # mode
  /\ sortBy' = [sortBy EXCEPT ![t] = mode]
  /\ bookmarks' = [bookmarks EXCEPT ![t] = sortedBookmarks(@, mode)]
  /\ UNCHANGED << storeVars, pageVars, search, userId, loading, error,
                  deleteTarget, deleteLoading, addReq, delReq, reloads, wireVars,
                  feedQ, tabQ, loadVars, hist >>

\* the sort select: setSortBy(event.target.value)
setSortBy(t, mode) ==
  /\ userId[t] # None
  /\ sortBy[t] # mode
  /\ sortBy' = [sortBy EXCEPT ![t] = mode]
  /\ UNCHANGED << storeVars, pageVars, search, userId, viewVars, addReq, delReq,
                  reloads, wireVars, feedQ, tabQ, loadVars, hist >>

\* a Delete button that issues the delete at once, without the dialog
requestDeleteDirect(t, i) ==
  /\ userId[t] # None
  /\ i \in 1..Len(bookmarks[t])
  /\ delReq[t] = Idle
  /\ delReq' = [delReq EXCEPT ![t] =
                 [stage |-> "sent", uid |-> session, by |-> userId[t],
                  id |-> bookmarks[t][i].id]]
  /\ UNCHANGED << storeVars, pageVars, queryVars, userId, viewVars, addReq, reloads,
                  wireVars, feedQ, tabQ, loadVars, hist >>

\* the Delete button of a list entry: setDeleteTarget(bookmark)
requestDelete(t, i) ==
  /\ userId[t] # None
  /\ i \in 1..Len(bookmarks[t])
  /\ deleteTarget' = [deleteTarget EXCEPT ![t] = bookmarks[t][i]]
  /\ UNCHANGED << storeVars, pageVars, queryVars, userId, bookmarks, loading, error,
                  deleteLoading, addReq, delReq, reloads, wireVars, feedQ, tabQ,
                  loadVars, hist >>

\* the Cancel button of the dialog: setDeleteTarget(null)
cancelDelete(t) ==
  /\ deleteTarget[t] # NoTarget
  /\ ~deleteLoading[t]
  /\ deleteTarget' = [deleteTarget EXCEPT ![t] = NoTarget]
  /\ UNCHANGED << storeVars, pageVars, queryVars, userId, bookmarks, loading, error,
                  deleteLoading, addReq, delReq, reloads, wireVars, feedQ, tabQ,
                  loadVars, hist >>

\* a Delete button of the dialog that is not disabled while a delete is awaited
handleDeleteWhilePending(t) ==
  /\ deleteTarget[t] # NoTarget
  /\ error' = [error EXCEPT ![t] = None]
  /\ deleteLoading' = [deleteLoading EXCEPT ![t] = TRUE]
  /\ delReq' = [delReq EXCEPT ![t] =
                 [stage |-> "sent", uid |-> session, by |-> userId[t],
                  id |-> deleteTarget[t].id]]
  /\ UNCHANGED << storeVars, pageVars, queryVars, userId, bookmarks, loading, deleteTarget,
                  addReq, reloads, wireVars, feedQ, tabQ, loadVars, hist >>

\* the Delete button of the dialog: handleDelete up to its await
handleDelete(t) ==
  /\ deleteTarget[t] # NoTarget
  /\ ~deleteLoading[t]
  /\ error' = [error EXCEPT ![t] = None]
  /\ deleteLoading' = [deleteLoading EXCEPT ![t] = TRUE]
  /\ delReq' = [delReq EXCEPT ![t] =
                 [stage |-> "sent", uid |-> session, by |-> userId[t],
                  id |-> deleteTarget[t].id]]
  /\ UNCHANGED << storeVars, pageVars, queryVars, userId, bookmarks, loading, deleteTarget,
                  addReq, reloads, wireVars, feedQ, tabQ, loadVars, hist >>

\* the store runs the delete of tab t: it removes the rows the delete policy
\* lets the caller see, none included, and reports no error
StoreDelete(t) ==
  /\ delReq[t].stage = "sent"
  /\ LET gone == Deletable(delReq[t].uid, delReq[t].id)
         audience == UNION { DeleteAudience(r) : r \in gone }
     IN /\ HasRoom(audience, 1)
        /\ rows' = rows \ gone
        /\ feedQ' = Enqueue(feedQ, audience)
  /\ delReq' = [delReq EXCEPT ![t].stage = "ok"]
  /\ UNCHANGED << nextId, pageVars, queryVars, userId, viewVars, addReq, reloads,
                  wireVars, tabQ, loadVars, hist >>

\* a rejected delete that removes the item all the same
handleDeleteRejectedRemoves(t) ==
  /\ delReq[t].stage = "sent"
  /\ deleteLoading' = [deleteLoading EXCEPT ![t] = FALSE]
  /\ error' = [error EXCEPT ![t] = MsgDelete]
  /\ bookmarks' = [bookmarks EXCEPT ![t] = FilterOut(@, delReq[t].id)]
  /\ delReq' = [delReq EXCEPT ![t] = Idle]
  /\ UNCHANGED << storeVars, pageVars, queryVars, userId, loading, deleteTarget,
                  addReq, reloads, wireVars, feedQ, tabQ, loadVars, hist >>

\* handleDelete after its await, deleteError set; the setters of a component
\* that was unmounted meanwhile change nothing
handleDeleteRejected(t) ==
  /\ delReq[t].stage = "sent"
  /\ deleteLoading' = [deleteLoading EXCEPT ![t] = FALSE]
  /\ error' = IF userId[t] = None THEN error ELSE [error EXCEPT ![t] = MsgDelete]
  /\ delReq' = [delReq EXCEPT ![t] = Idle]
  /\ UNCHANGED << storeVars, pageVars, queryVars, userId, bookmarks, loading, deleteTarget,
                  addReq, reloads, wireVars, feedQ, tabQ, loadVars, hist >>

\* handleDelete after its await, no deleteError
handleDeleteDone(t) ==
  /\ delReq[t].stage = "ok"
  /\ HasRoom(Listeners(delReq[t].by), 1)
  /\ deleteLoading' = [deleteLoading EXCEPT ![t] = FALSE]
  /\ bookmarks' = [bookmarks EXCEPT ![t] = FilterOut(@, delReq[t].id)]
  /\ deleteTarget' = [deleteTarget EXCEPT ![t] = NoTarget]
  /\ delReq' = [delReq EXCEPT ![t] = Idle]
  /\ tabQ' = notifyTabs(delReq[t].by, tabQ)
  /\ UNCHANGED << storeVars, pageVars, queryVars, userId, loading, error, addReq,
                  reloads, wireVars, feedQ, loadVars, hist >>

\* a callback that applies the change it is told of to the list itself
onFeedEventApplies(t) ==
  /\ channel[t] # Closed
  /\ feedQ[t] > 0
  /\ feedQ' = [feedQ EXCEPT ![t] = @ - 1]
  /\ bookmarks' = [bookmarks EXCEPT ![t] = SelectAll(session)]
  /\ UNCHANGED << storeVars, pageVars, queryVars, userId, loading, error, deleteTarget,
                  deleteLoading, addReq, delReq, reloads, wireVars, tabQ,
                  loadVars, hist >>

\* the postgres_changes callback of the subscription: loadBookmarks
onFeedEvent(t) ==
  /\ channel[t] # Closed
  /\ feedQ[t] > 0
  /\ feedQ' = [feedQ EXCEPT ![t] = @ - 1]
  /\ reloads' = loadBookmarks(t, reloads)
  /\ UNCHANGED << storeVars, pageVars, queryVars, userId, viewVars, addReq, delReq,
                  wireVars, tabQ, loadVars, hist >>

\* a status callback that gives the subscription up
onChannelErrorUnsubscribes(t) ==
  /\ channel[t] # Closed
  /\ error' = [error EXCEPT ![t] = MsgRealtime]
  /\ channel' = [channel EXCEPT ![t] = Closed]
  /\ UNCHANGED << storeVars, pageVars, queryVars, userId, bookmarks, loading,
                  deleteTarget, deleteLoading, addReq, delReq, reloads,
                  tabChannel, feedQ, tabQ, loadVars, hist >>

\* the status callback of subscribe, status "CHANNEL_ERROR"
onChannelError(t) ==
  /\ channel[t] # Closed
  /\ error' = [error EXCEPT ![t] = MsgRealtime]
  /\ UNCHANGED << storeVars, pageVars, queryVars, userId, bookmarks, loading,
                  deleteTarget, deleteLoading, addReq, delReq, reloads, wireVars,
                  feedQ, tabQ, loadVars, hist >>

\* tabChannel.onmessage: loadBookmarks
onTabMessage(t) ==
  /\ tabChannel[t] # Closed
  /\ tabQ[t] > 0
  /\ tabQ' = [tabQ EXCEPT ![t] = @ - 1]
  /\ reloads' = loadBookmarks(t, reloads)
  /\ UNCHANGED << storeVars, pageVars, queryVars, userId, viewVars, addReq, delReq,
                  wireVars, feedQ, loadVars, hist >>

\* a session of user u elsewhere (another browser, another device) inserts a
\* bookmark
RemoteInsert(u) ==
  /\ nextId <= MaxRows
  /\ LET r == NewRow(u, SeedTitle, SeedUrl)
     IN /\ HasRoom(InsertAudience(r), 1)
        /\ rows' = rows \cup {r}
        /\ feedQ' = Enqueue(feedQ, InsertAudience(r))
  /\ nextId' = nextId + 1
  /\ UNCHANGED << pageVars, queryVars, userId, viewVars, addReq, delReq, reloads, wireVars,
                  tabQ, loadVars, hist >>

\* a client that is not one of Tabs, signed in as u, deletes one of u's rows:
\* the delete policy lets it, the publication sends the change
RemoteDelete(u) ==
  /\ \E r \in rows :
       /\ r.user_id = u
       /\ HasRoom(DeleteAudience(r), 1)
       /\ rows' = rows \ {r}
       /\ feedQ' = Enqueue(feedQ, DeleteAudience(r))
  /\ UNCHANGED << nextId, pageVars, queryVars, userId, viewVars, addReq, delReq, reloads,
                  wireVars, tabQ, loadVars, hist >>

\* a page of this browser that is not one of Tabs, mounted for user u, calls
\* notifyTabs
SiblingNotify(u) ==
  /\ HasRoom(Listeners(u), 1)
  /\ Listeners(u) # {}
  /\ tabQ' = notifyTabs(u, tabQ)
  /\ UNCHANGED << storeVars, pageVars, queryVars, userId, viewVars, addReq, delReq, reloads,
                  wireVars, feedQ, loadVars, hist >>

\* a user signs in through the provider: the browser holds a session
SignIn(u) ==
  /\ session = None
  /\ session' = u
  /\ UNCHANGED << storeVars, bcSupported, queryVars, signingOut, refreshing, userId, viewVars,
                  addReq, delReq, reloads, wireVars, feedQ, tabQ, loadVars, hist >>

\* the Sign out button: handleSignOut up to its await
handleSignOut(t) ==
  /\ userId[t] # None
  /\ ~signingOut[t]
  /\ signingOut' = [signingOut EXCEPT ![t] = TRUE]
  /\ error' = [error EXCEPT ![t] = None]
  /\ UNCHANGED << storeVars, bcSupported, queryVars, session, refreshing, userId, bookmarks,
                  loading, deleteTarget, deleteLoading, addReq, delReq, reloads,
                  wireVars, feedQ, tabQ, loadVars, hist >>

\* a failed signOut that refreshes the page all the same
handleSignOutFailedRefreshes(t) ==
  /\ signingOut[t]
  /\ signingOut' = [signingOut EXCEPT ![t] = FALSE]
  /\ error' = [error EXCEPT ![t] = MsgSignOut]
  /\ refreshing' = [refreshing EXCEPT ![t] = TRUE]
  /\ UNCHANGED << storeVars, bcSupported, queryVars, session, userId, bookmarks,
                  loading, deleteTarget, deleteLoading, addReq, delReq, reloads,
                  wireVars, feedQ, tabQ, loadVars, hist >>

\* handleSignOut after its await, signOutError set
handleSignOutFailed(t) ==
  /\ signingOut[t]
  /\ signingOut' = [signingOut EXCEPT ![t] = FALSE]
  /\ error' = [error EXCEPT ![t] = MsgSignOut]
  /\ UNCHANGED << storeVars, bcSupported, queryVars, session, refreshing, userId, bookmarks,
                  loading, deleteTarget, deleteLoading, addReq, delReq, reloads,
                  wireVars, feedQ, tabQ, loadVars, hist >>

\* handleSignOut after its await, no signOutError: the session of the browser
\* is gone and router.refresh() is called
handleSignOutDone(t) ==
  /\ signingOut[t]
  /\ signingOut' = [signingOut EXCEPT ![t] = FALSE]
  /\ session' = None
  /\ refreshing' = [refreshing EXCEPT ![t] = TRUE]
  /\ UNCHANGED << storeVars, bcSupported, queryVars, userId, viewVars, addReq, delReq,
                  reloads, wireVars, feedQ, tabQ, loadVars, hist >>

\* a cleanup that leaves the channel open
UnsubscribeNothing(open, old) == open

\* the cleanup of useEffect: the channel of the run before is closed, whether
\* or not it ever finished opening
Unsubscribe(open, old) == open \ {old}

\* a re-run of useEffect that skips the cleanup of the run before
ResubscribeKeeping(open, old, new) == open \cup {new}

\* the channels open after useEffect ran again for a new userId: the cleanup
\* of the run before closes the old one, then the new one is opened
Resubscribe(open, old, new) == Unsubscribe(open, old) \cup {new}

\* The refresh of tab t arrives: HomePage was rendered under the session of
\* that moment.
\*  - no session: the signed-in BookmarkManager is unmounted (the cleanup of
\*    useEffect unsubscribes and closes the tab channel) and a signed-out one
\*    is mounted in the other branch of the page, with the state of useState;
\*    what the old one still awaits stays in flight, its setters change nothing
\*  - the session of the same user: the props are the same, nothing happens
\*  - the session of another user: the component stays, with its state; the
\*    cleanup of useEffect runs, then useEffect with the new userId
refreshDone(t) ==
  /\ refreshing[t]
  /\ refreshing' = [refreshing EXCEPT ![t] = FALSE]
  /\ IF session = None
       THEN /\ userId' = [userId EXCEPT ![t] = None]
            /\ bookmarks' = [bookmarks EXCEPT ![t] = <<>>]
            /\ loading' = [loading EXCEPT ![t] = FALSE]
            /\ error' = [error EXCEPT ![t] = None]
            /\ deleteTarget' = [deleteTarget EXCEPT ![t] = NoTarget]
            /\ deleteLoading' = [deleteLoading EXCEPT ![t] = FALSE]
            /\ signingOut' = [signingOut EXCEPT ![t] = FALSE]
            /\ search' = [search EXCEPT ![t] = <<>>]
            /\ sortBy' = [sortBy EXCEPT ![t] = "latest"]
            /\ channel' = [channel EXCEPT ![t] = Unsubscribe(@, FeedName(userId[t]))]
            /\ tabChannel' = [tabChannel EXCEPT ![t] =
                                Unsubscribe(@, ChannelName(userId[t]))]
            /\ feedQ' = [feedQ EXCEPT ![t] = 0]
            /\ tabQ' = [tabQ EXCEPT ![t] = 0]
            /\ reloads' = [reloads EXCEPT ![t] = <<>>]
            /\ overtaken' = [overtaken EXCEPT ![t] = 0]
            /\ errAt' = [errAt EXCEPT ![t] = 0]
       ELSE IF session = userId[t]
         THEN UNCHANGED << userId, viewVars, queryVars, signingOut, wireVars, feedQ,
                           tabQ, reloads, overtaken, errAt >>
         ELSE /\ Len(reloads[t]) < MaxInFlight
              /\ userId' = [userId EXCEPT ![t] = session]
              /\ channel' = [channel EXCEPT ![t] =
                               Resubscribe(@, FeedName(userId[t]), FeedName(session))]
              /\ tabChannel' = [tabChannel EXCEPT ![t] =
                                  IF bcSupported
                                    THEN Resubscribe(@, ChannelName(userId[t]),
                                                     ChannelName(session))
                                    ELSE @]
              /\ feedQ' = [feedQ EXCEPT ![t] = 0]
              /\ tabQ' = [tabQ EXCEPT ![t] = 0]
              /\ reloads' = [reloads EXCEPT ![t] = Append(@, Request(session))]
              /\ UNCHANGED << viewVars, queryVars, signingOut, overtaken, errAt >>
  /\ UNCHANGED << storeVars, bcSupported, session, addReq, delReq, lastLoad, hist >>

\* ------------------------------------------------------------------ steps
MountSteps(T) == \E t \in T, u \in Users : Mount(t, u)

SubmitSteps(T) ==
  \E t \in T, ti \in TitleInputs, u \in UrlInputs : handleAdd(t, ti, u)

InsertSteps(T) ==
  \/ \E t \in T : StoreInsert(t)
  \/ \E t \in T : handleAddRejected(t)
  \/ \E t \in T : handleAddDone(t)

ReloadSteps(T) ==
  \/ \E t \in T, i \in 1..MaxInFlight : StoreSelect(t, i)
  \/ \E t \in T, i \in 1..MaxInFlight : loadBookmarksFailed(t, i)
  \/ \E t \in T, i \in 1..MaxInFlight : loadBookmarksDone(t, i)
  \/ \E t \in T : onFeedEvent(t)
  \/ \E t \in T : onTabMessage(t)

DeleteSteps(T) ==
  \/ \E t \in T, i \in 1..MaxRows : requestDelete(t, i)
  \/ \E t \in T : cancelDelete(t)
  \/ \E t \in T : handleDelete(t)
  \/ \E t \in T : StoreDelete(t)
  \/ \E t \in T : handleDeleteRejected(t)
  \/ \E t \in T : handleDeleteDone(t)

ViewSteps(T) ==
  \/ \E t \in T, q \in SearchInputs : setSearch(t, q)
  \/ \E t \in T, mode \in SortModes : setSortBy(t, mode)

RemoteSteps(U) ==
  \/ \E u \in U : RemoteInsert(u)
  \/ \E u \in U : SiblingNotify(u)

SessionSteps(T) ==
  \/ \E u \in Users : SignIn(u)
  \/ \E t \in T : handleSignOut(t)
  \/ \E t \in T : handleSignOutFailed(t)
  \/ \E t \in T : handleSignOutDone(t)
  \/ \E t \in T : refreshDone(t)

\* every tab, every operation
Next ==
  \/ ViewSteps(Tabs)
  \/ \E t \in Tabs : onChannelError(t)
  \/ MountSteps(Tabs)
  \/ SessionSteps(Tabs)
  \/ RemoteSteps(Users)
  \/ \E u \in Users : RemoteDelete(u)
  \/ SubmitSteps(Tabs)
  \/ InsertSteps(Tabs)
  \/ ReloadSteps(Tabs)
  \/ DeleteSteps(Tabs)
Spec == Init /\ [][Next]_vars

\* one tab creating bookmarks in an empty table
NextCreate ==
  \/ MountSteps({"t1"})
  \/ SubmitSteps({"t1"})
  \/ InsertSteps({"t1"})
  \/ ReloadSteps({"t1"})
SpecCreate == Init /\ [][NextCreate]_vars

\* one tab deleting bookmarks from the seeded table
NextDelete ==
  \/ MountSteps({"t1"})
  \/ ReloadSteps({"t1"})
  \/ DeleteSteps({"t1"})
SpecDelete == InitSeeded /\ [][NextDelete]_vars

\* one tab creating bookmarks one after the other: each create is submitted
\* when the tab is settled, and is followed by its reloads
NextSettled ==
  \/ MountSteps({"t1"})
  \/ \E ti \in TitleInputs, u \in UrlInputs : handleAddSettled("t1", ti, u)
  \/ InsertSteps({"t1"})
  \/ ReloadSteps({"t1"})
SpecSettled == Init /\ [][NextSettled]_vars

\* the one title and url of the inputs that pass the checks of handleAdd
ValidTitle == <<" ", "a", " ">>
ValidUrl == <<" ", "H", "T", "T", "P", ":", "/", "/", "A", " ">>

\* one tab whose user signs out and signs in again, as the same user or as
\* another one, while bookmarks of the first user are inserted and messages
\* for the first user are posted elsewhere; no request fails
NextSignOut ==
  \/ MountSteps({"t1"})
  \/ \E u \in Users : SignIn(u)
  \/ handleSignOut("t1")
  \/ handleSignOutDone("t1")
  \/ refreshDone("t1")
  \/ \E i \in 1..MaxInFlight : StoreSelect("t1", i)
  \/ \E i \in 1..MaxInFlight : loadBookmarksDone("t1", i)
  \/ onFeedEvent("t1")
  \/ onTabMessage("t1")
  \/ RemoteSteps({"u1"})
SpecSignOut == Init /\ [][NextSignOut]_vars

\* one tab whose subscription reports errors while its user saves and
\* deletes bookmarks; no request fails and the reloads are answered in the
\* order they were sent
NextAdvisory ==
  \/ MountSteps({"t1"})
  \/ onChannelError("t1")
  \/ handleAdd("t1", ValidTitle, ValidUrl)
  \/ StoreInsert("t1")
  \/ handleAddDone("t1")
  \/ StoreSelect("t1", 1)
  \/ loadBookmarksDone("t1", 1)
  \/ onFeedEvent("t1")
  \/ onTabMessage("t1")
  \/ requestDelete("t1", 1)
  \/ handleDelete("t1")
  \/ StoreDelete("t1")
  \/ handleDeleteDone("t1")
SpecAdvisory == Init /\ [][NextAdvisory]_vars

\* one tab whose user saves and deletes bookmarks while any request may
\* fail; the form is submitted when nothing is outstanding and the reloads
\* are answered in the order they were sent
NextRetry ==
  \/ MountSteps({"t1"})
  \/ handleAddQuiet("t1", ValidTitle, ValidUrl)
  \/ InsertSteps({"t1"})
  \/ StoreSelect("t1", 1)
  \/ loadBookmarksFailed("t1", 1)
  \/ loadBookmarksDone("t1", 1)
  \/ onFeedEvent("t1")
  \/ onTabMessage("t1")
  \/ requestDelete("t1", 1)
  \/ handleDelete("t1")
  \/ StoreDelete("t1")
  \/ handleDeleteRejected("t1")
  \/ handleDeleteDone("t1")
SpecRetry == Init /\ [][NextRetry]_vars

\* one tab lists a table of any titles and urls; the user searches and sorts
NextView ==
  \/ MountSteps({"t1"})
  \/ StoreSelect("t1", 1)
  \/ loadBookmarksDone("t1", 1)
  \/ ViewSteps({"t1"})
SpecView == InitView /\ [][NextView]_vars

\* two tabs of one browser and the messages of its other pages: the first tab
\* signs out and may come back as another user while the second is opened;
\* the reloads of a tab are answered in the order they were sent
NextTabs ==
  \/ MountSteps(Tabs)
  \/ \E u \in Users : SignIn(u)
  \/ handleSignOut("t1")
  \/ handleSignOutDone("t1")
  \/ refreshDone("t1")
  \/ \E u \in Users : SiblingNotify(u)
  \/ \E t \in Tabs : onTabMessage(t)
  \/ \E t \in Tabs : StoreSelect(t, 1)
  \/ \E t \in Tabs : loadBookmarksDone(t, 1)
SpecTabs == Init /\ [][NextTabs]_vars

\* one tab whose users save bookmarks, sign out and sign in: the inserts and
\* the sessions they are sent under, without the reloads
NextOwners ==
  \/ MountSteps({"t1"})
  \/ \E u \in Users : SignIn(u)
  \/ handleSignOut("t1")
  \/ handleSignOutDone("t1")
  \/ refreshDone("t1")
  \/ handleAdd("t1", ValidTitle, ValidUrl)
  \/ StoreInsert("t1")
  \/ handleAddRejected("t1")
  \/ handleAddDone("t1")
SpecOwners == Init /\ [][NextOwners]_vars

\* one tab subscribed to the table while clients of either user insert and
\* delete rows of their own
NextFeed ==
  \/ MountSteps({"t1"})
  \/ \E u \in Users : RemoteInsert(u)
  \/ \E u \in Users : RemoteDelete(u)
  \/ onFeedEvent("t1")
  \/ StoreSelect("t1", 1)
  \/ loadBookmarksDone("t1", 1)
SpecFeed == Init /\ [][NextFeed]_vars

\* one tab that reloads, deletes bookmarks of the seeded table and changes
\* the sort mode and the search text meanwhile
NextOrder ==
  \/ MountSteps({"t1"})
  \/ StoreSelect("t1", 1)
  \/ loadBookmarksDone("t1", 1)
  \/ onFeedEvent("t1")
  \/ onTabMessage("t1")
  \/ \E i \in 1..MaxRows : requestDelete("t1", i)
  \/ handleDelete("t1")
  \/ StoreDelete("t1")
  \/ handleDeleteDone("t1")
  \/ \E mode \in SortModes : setSortBy("t1", mode)
  \/ setSearch("t1", SeedTitle)
SpecOrder == InitSeeded /\ [][NextOrder]_vars

\* one tab whose sign-out may fail, with the reloads, feed events and
\* broadcasts of its user; the reloads are answered in the order they were sent
NextSignOutFailed ==
  \/ MountSteps({"t1"})
  \/ \E u \in Users : SignIn(u)
  \/ handleSignOut("t1")
  \/ handleSignOutFailed("t1")
  \/ handleSignOutDone("t1")
  \/ refreshDone("t1")
  \/ StoreSelect("t1", 1)
  \/ loadBookmarksDone("t1", 1)
  \/ onFeedEvent("t1")
  \/ onTabMessage("t1")
  \/ RemoteSteps({"u1"})
SpecSignOutFailed == Init /\ [][NextSignOutFailed]_vars

\* ------------------------------------------------------------------ claims
\* C1: whenever a tab is authenticated, nothing of it is in flight or queued
\* and the loadBookmarks that completed last succeeded, its items are the
\* store's bookmarks of its user, newest first.
C1_Convergence ==
  \A t \in Tabs :
    (userId[t] # None /\ Quiet(t) /\ lastLoad[t] = "ok")
      => bookmarks[t] = SelectAll(userId[t])

\* C2: a loadBookmarks that fails leaves the items exactly as they were and
\* sets the error.
C2_FailedReloadKeepsItems ==
  [][\A t \in Tabs, i \in 1..MaxInFlight :
       loadBookmarksFailed(t, i)
         => bookmarks'[t] = bookmarks[t] /\ error'[t] = MsgFetch]_vars

\* a reload has failed over a list that is not empty
C2_Witness ==
  /\ lastLoad["t1"] = "failed"
  /\ error["t1"] = MsgFetch
  /\ bookmarks["t1"] # <<>>

\* the messages of the validation of handleAdd
ValidationMessages == { MsgRequired, MsgInvalidUrl, MsgScheme }

\* a title that is empty after trimming, or a url that does not parse as an
\* absolute url or whose scheme is neither http nor https
C3_Invalid(ti, u) ==
  \/ trim(ti) = <<>>
  \/ ~ParseURL(trim(u)).ok
  \/ ParseURL(trim(u)).protocol \notin { HttpProtocol, HttpsProtocol }

\* C3: a submit with an invalid title or url ends with a validation message,
\* sends no insert and no select, posts no message and leaves the items and
\* the store as they were.
C3_InvalidCreateDoesNothing ==
  [][\A t \in Tabs, ti \in TitleInputs, u \in UrlInputs :
       (handleAdd(t, ti, u) /\ C3_Invalid(ti, u))
         => /\ error'[t] \in ValidationMessages
            /\ addReq' = addReq
            /\ reloads' = reloads
            /\ delReq' = delReq
            /\ tabQ' = tabQ
            /\ feedQ' = feedQ
            /\ rows' = rows
            /\ bookmarks' = bookmarks]_vars

\* a url of another scheme has been refused over a list that is not empty
C3_Witness ==
  /\ error["t1"] = MsgScheme
  /\ addReq["t1"] = Idle
  /\ bookmarks["t1"] # <<>>

C5_RejectedCreate ==
  [][\A t \in Tabs :
       handleAddRejected(t)
         => /\ error'[t] = MsgInsert
            /\ bookmarks' = bookmarks
            /\ reloads' = reloads
            /\ tabQ' = tabQ
            /\ feedQ' = feedQ
            /\ rows' = rows]_vars

\* an insert has been rejected over a list that is not empty, nothing else
\* outstanding
C5_Witness ==
  /\ error["t1"] = MsgInsert
  /\ bookmarks["t1"] # <<>>
  /\ Quiet("t1")

\* C6 as stated: every completed create issues one loadBookmarks in its tab
\* and posts exactly one message on the tab channel.
C6_AlwaysOneMessage ==
  [][\A t \in Tabs :
       handleAddDone(t)
         => /\ reloads'[t] = Append(reloads[t], Request(session))
            /\ tabQ'[t] = tabQ[t] + 1]_vars

\* C6: every completed create issues one loadBookmarks in its tab and, where
\* BroadcastChannel exists, posts exactly one message on the tab channel, none
\* where it does not; a message is posted and a select of the create is sent
\* only in a step that follows the store's acceptance of the insert.
C6_CreateTriggers ==
  [][\A t \in Tabs :
       /\ handleAddDone(t)
            => /\ reloads'[t] = Append(reloads[t], Request(session))
               /\ tabQ'[t] = tabQ[t] + (IF bcSupported THEN 1 ELSE 0)
       /\ tabQ'[t] > tabQ[t]
            => /\ addReq[t].stage = "ok"
               /\ \E r \in rows : /\ r.user_id = addReq[t].uid
                                  /\ r.title = addReq[t].title
                                  /\ r.url = addReq[t].url
       /\ \A ti \in TitleInputs, u \in UrlInputs :
            handleAdd(t, ti, u) => reloads' = reloads /\ tabQ' = tabQ]_vars

\* a create has completed: its message and its select are both outstanding
C6_Witness ==
  /\ bcSupported
  /\ tabQ["t1"] = 1
  /\ addReq["t1"] = Idle
  /\ rows # {}
  /\ \E i \in 1..Len(reloads["t1"]) : reloads["t1"][i].stage = "sent"

\* C7 as stated: when a delete completes, the item of that id leaves the
\* items at once, the others keep their order, and exactly one message is
\* posted on the tab channel.
C7_AlwaysOneMessage ==
  [][\A t \in Tabs :
       handleDeleteDone(t)
         => /\ bookmarks'[t] = SelectSeq(bookmarks[t], LAMBDA b : b.id # delReq[t].id)
            /\ tabQ'[t] = tabQ[t] + 1]_vars

\* C7: when a delete completes, the item of that id leaves the items in that
\* very step, the others keep their order, and exactly one message is posted
\* on the tab channel where BroadcastChannel exists, none where it does not.
C7_DeleteRemovesItem ==
  [][\A t \in Tabs :
       handleDeleteDone(t)
         => /\ bookmarks'[t] = SelectSeq(bookmarks[t], LAMBDA b : b.id # delReq[t].id)
            /\ delReq[t].id \notin Ids(bookmarks'[t])
            /\ tabQ'[t] = tabQ[t] + (IF bcSupported THEN 1 ELSE 0)]_vars

\* an item between two others has been removed, before any reload saw the
\* delete: the two others are listed in their order, one message is posted
C7_Witness ==
  /\ bcSupported
  /\ tabQ["t1"] = 1
  /\ feedQ["t1"] = 1
  /\ reloads["t1"] = <<>>
  /\ delReq["t1"] = Idle
  /\ Len(bookmarks["t1"]) >= 2
  /\ bookmarks["t1"][1].id = bookmarks["t1"][2].id + 2

\* C8: when a delete is rejected the items stay as they were, the error is
\* set and no message is posted.
C8_RejectedDelete ==
  [][\A t \in Tabs :
       handleDeleteRejected(t)
         => /\ bookmarks' = bookmarks
            /\ error'[t] = MsgDelete
            /\ tabQ' = tabQ
            /\ rows' = rows]_vars

\* a delete has been rejected: the error shows, the item is still listed and
\* still stored
C8_Witness ==
  /\ error["t1"] = MsgDelete
  /\ delReq["t1"] = Idle
  /\ deleteTarget["t1"] # NoTarget
  /\ deleteTarget["t1"].id \in Ids(bookmarks["t1"])
  /\ \E r \in rows : r.id = deleteTarget["t1"].id

\* C9 as stated: a delete of an id that matches no row of the caller (a row
\* of another user, a row already deleted) ends with the delete error and
\* leaves the items as they were.
C9_DeleteOfNothingFails ==
  [][\A t \in Tabs :
       (/\ delReq[t].stage = "sent"
        /\ Deletable(delReq[t].uid, delReq[t].id) = {}
        /\ delReq'[t] # delReq[t])
         => /\ delReq'[t] = Idle
            /\ error'[t] = MsgDelete
            /\ bookmarks'[t] = bookmarks[t]]_vars

\* C10: the Delete button of an entry stores the entry as deleteTarget and
\* Cancel clears it; neither sends a delete nor changes the items or the
\* store, and a delete is only ever sent for the entry that is pending.
C10_RequestAndCancel ==
  [][\A t \in Tabs :
       /\ \A i \in 1..MaxRows :
            requestDelete(t, i)
              => /\ deleteTarget'[t] = bookmarks[t][i]
                 /\ delReq' = delReq
                 /\ rows' = rows
                 /\ bookmarks' = bookmarks
       /\ cancelDelete(t)
            => /\ deleteTarget'[t] = NoTarget
               /\ delReq' = delReq
               /\ rows' = rows
               /\ bookmarks' = bookmarks
       /\ (delReq[t] = Idle /\ delReq'[t] # Idle)
            => /\ deleteTarget[t] # NoTarget
               /\ delReq'[t].id = deleteTarget[t].id]_vars

\* an entry is pending and nothing was sent: every stored row is still
\* stored and listed
C10_Witness ==
  /\ deleteTarget["t1"] # NoTarget
  /\ delReq["t1"] = Idle
  /\ ~deleteLoading["t1"]
  /\ Cardinality(rows) = MaxRows
  /\ Len(bookmarks["t1"]) = MaxRows

\* C11 as stated: the Delete button of the dialog sends one delete, for the
\* id of the pending entry, none while one is in flight, and when that delete
\* has completed, accepted or rejected, deleteTarget is cleared.
C11_ConfirmDelete ==
  [][\A t \in Tabs :
       /\ handleDelete(t)
            => /\ delReq[t] = Idle
               /\ delReq'[t].stage = "sent"
               /\ delReq'[t].id = deleteTarget[t].id
       /\ (delReq[t] # Idle /\ delReq'[t] = Idle)
            => deleteTarget'[t] = NoTarget]_vars

\* C12 as stated: when the refresh that a successful sign-out called for has
\* arrived, the tab is signed out: no userId, no subscription, no tab channel,
\* no items.
C12_SignedOut ==
  [][\A t \in Tabs :
       refreshDone(t)
         => /\ userId'[t] = None
            /\ channel'[t] = Closed
            /\ tabChannel'[t] = Closed
            /\ bookmarks'[t] = <<>>]_vars

\* C13: a tab holds at most one open subscription and at most one open tab
\* channel, each named after the userId of the tab, none without a userId; so
\* after an identity change the old ones are closed.
C13_OneSubscription ==
  \A t \in Tabs :
    /\ Cardinality(channel[t]) <= 1
    /\ Cardinality(tabChannel[t]) <= 1
    /\ userId[t] = None => channel[t] = Closed /\ tabChannel[t] = Closed
    /\ userId[t] # None
         => /\ channel[t] = {FeedName(userId[t])}
            /\ tabChannel[t] = IF bcSupported THEN {ChannelName(userId[t])} ELSE Closed

\* the tab was rendered for the second user while it listed bookmarks of the
\* first: the component stayed, its channels are those of the second user
C13_Witness ==
  /\ userId["t1"] = "u2"
  /\ ~refreshing["t1"]
  /\ bookmarks["t1"] # <<>>
  /\ bcSupported
  /\ channel["t1"] = {FeedName("u2")}
  /\ tabChannel["t1"] = {ChannelName("u2")}

\* C14: handling one change-feed event issues exactly one reload and leaves
\* the list alone; while the tab stays subscribed the list changes only in the
\* step in which the result of a reload arrives.
C14_FeedEventReloads ==
  [][\A t \in Tabs :
       /\ onFeedEvent(t)
            => /\ reloads'[t] = Append(reloads[t], Request(session))
               /\ bookmarks'[t] = bookmarks[t]
       /\ (channel[t] # Closed /\ channel'[t] # Closed /\ bookmarks'[t] # bookmarks[t])
            => \E i \in 1..Len(reloads[t]) : loadBookmarksDone(t, i)]_vars

\* an insert elsewhere was announced to the tab and the event was handled:
\* besides the reload of the mount a second one is in flight, the list is
\* still what it was
C14_Witness ==
  /\ ~bcSupported
  /\ session = "u1"
  /\ userId["t1"] = "u1"
  /\ ~signingOut["t1"]
  /\ ~refreshing["t1"]
  /\ Cardinality(rows) = 1
  /\ feedQ["t1"] = 0
  /\ Len(reloads["t1"]) = 2
  /\ bookmarks["t1"] = <<>>

\* C15: a message posted on the tab channel of a user reaches every tab of
\* the browser whose userId is that user, where it issues one reload, and no
\* tab whose userId is another user.
C15_BroadcastByOwner ==
  [][/\ \A u \in Users :
          SiblingNotify(u)
            => \A t \in Tabs :
                 tabQ'[t] = tabQ[t] + (IF bcSupported /\ userId[t] = u THEN 1 ELSE 0)
     /\ \A t \in Tabs :
          onTabMessage(t)
            => /\ tabQ'[t] = tabQ[t] - 1
               /\ reloads'[t] = Append(reloads[t], Request(session))
               /\ \A x \in Tabs \ {t} : reloads'[x] = reloads[x]]_vars

\* two tabs with different users, a message for the user of the second
\* waiting at the second only
C15_Witness ==
  /\ userId["t1"] = "u1"
  /\ userId["t2"] = "u2"
  /\ tabChannel["t1"] = {ChannelName("u1")}
  /\ tabChannel["t2"] = {ChannelName("u2")}
  /\ tabQ["t1"] = 0
  /\ tabQ["t2"] = 1

\* C16: every bookmark listed in a tab is a row of the user the tab is
\* rendered for, in every reachable state.
C16_Isolation ==
  \A t \in Tabs : \A i \in 1..Len(bookmarks[t]) : \A r \in rows :
    r.id = bookmarks[t][i].id => r.user_id = userId[t]

\* C17: an accepted insert adds one row whose owner is the user of the session
\* the request was sent under and whose title and url are those of the
\* request, which carries nothing else; the rows already stored keep their
\* owner.
C17_OwnerFromSession ==
  [][/\ \A t \in Tabs :
          StoreInsert(t)
            => \E r \in rows' :
                 /\ rows' = rows \cup {r}
                 /\ r \notin rows
                 /\ r.user_id = addReq[t].uid
                 /\ r.user_id \in Users
                 /\ r.title = addReq[t].title
                 /\ r.url = addReq[t].url
     /\ \A t \in Tabs :
          handleAdd(t, ValidTitle, ValidUrl)
            => /\ DOMAIN InsertPayload(ValidTitle, ValidUrl) = {"title", "url"}
               /\ addReq'[t].uid = session
               /\ addReq'[t].title = InsertPayload(ValidTitle, ValidUrl).title
               /\ addReq'[t].url = InsertPayload(ValidTitle, ValidUrl).url
     /\ \A r \in rows : \E r2 \in rows' : r2.id = r.id /\ r2.user_id = r.user_id
     /\ \A r \in rows' : \A r2 \in rows' : r2.id = r.id => r2 = r]_vars

\* the table holds a bookmark saved under the session of each user, the one
\* of the second user sent from a tab still rendered for the first
C17_Witness ==
  /\ \E r \in rows : r.user_id = "u1"
  /\ \E r \in rows : r.user_id = "u2"
  /\ userId["t1"] = "u1"
  /\ addReq["t1"] # Idle
  /\ addReq["t1"].stage = "ok"
  /\ addReq["t1"].uid = "u2"

\* C18: once a loadBookmarks sent later than a failed one has completed with
\* data, the error shown is not the message of the failed one: a later one
\* that completes with data takes the message away, and one that fails after
\* a later one completed with data does not show its message.
C18_NoStaleFetchError ==
  [][\A t \in Tabs : \A i \in 1..MaxInFlight :
       /\ (loadBookmarksDone(t, i) /\ error[t] = MsgFetch /\ i > errAt[t])
            => error'[t] # MsgFetch
       /\ (loadBookmarksFailed(t, i) /\ i <= overtaken[t])
            => error'[t] # MsgFetch]_vars

\* C19: a tab has at most one insert in flight: the form is submitted only
\* while no insert of the tab is pending, Save is disabled (loading) for as
\* long as one is, and the store adds one row for one request.
C19_OneCreateInFlight ==
  [][\A t \in Tabs :
       /\ \A ti \in TitleInputs, u \in UrlInputs :
            handleAdd(t, ti, u) => addReq[t] = Idle /\ ~loading[t]
       /\ addReq'[t] # Idle => loading'[t]
       /\ StoreInsert(t)
            => /\ addReq[t].stage = "sent"
               /\ addReq'[t].stage = "ok"
               /\ Cardinality(rows') = Cardinality(rows) + 1]_vars

\* an insert is in flight and Save is disabled
C19_Witness ==
  /\ addReq["t1"] # Idle
  /\ addReq["t1"].stage = "sent"
  /\ loading["t1"]
  /\ ~ENABLED handleAdd("t1", ValidTitle, ValidUrl)

ContainsText(bookmark, q) ==
  \/ Includes(LowerAll(bookmark.title), LowerAll(q))
  \/ Includes(LowerAll(bookmark.url), LowerAll(q))

\* C21: the listing holds exactly the items whose title or url contains the
\* text of the search field, whatever the case, each once and nothing else;
\* with an empty search field it holds every item.
C21_ViewFilters ==
  \A t \in Tabs :
    LET v == Listing(t)
        items == bookmarks[t]
    IN /\ \A i \in 1..Len(items) :
            ContainsText(items[i], search[t]) <=> \E j \in 1..Len(v) : v[j] = items[i]
       /\ \A j \in 1..Len(v) : \E i \in 1..Len(items) : v[j] = items[i]
       /\ \A j, k \in 1..Len(v) : v[j].id = v[k].id => j = k
       /\ search[t] = <<>> => Len(v) = Len(items)

\* the letters of the titles in the order of the alphabet, the space first
Alphabet == <<" ", "a", "b", "f", "h", "p", "s", "t">>
AlphabetIndex(c) == CHOOSE i \in 1..Len(Alphabet) : Alphabet[i] = Lower(c)

\* title a does not come after title b in a dictionary that ignores case
TitleAscending(a, b) ==
  \/ \E n \in 1..Len(a) :
       /\ n <= Len(b)
       /\ \A m \in 1..(n - 1) : AlphabetIndex(a[m]) = AlphabetIndex(b[m])
       /\ AlphabetIndex(a[n]) < AlphabetIndex(b[n])
  \/ /\ Len(a) <= Len(b)
     /\ \A m \in 1..Len(a) : AlphabetIndex(a[m]) = AlphabetIndex(b[m])

\* C22: the listing is in the order of the sort select: "latest" by creation
\* time descending, "oldest" by creation time ascending, "az" by title
\* ascending; the items the search leaves stand in the order the sort gave
\* them.
C22_ViewOrdered ==
  \A t \in Tabs :
    LET v == Listing(t)
        sorted == filteredBookmarks(bookmarks[t], <<>>, sortBy[t])
    IN /\ \A j \in 1..(Len(v) - 1) :
            /\ sortBy[t] = "latest" => v[j].created_at >= v[j + 1].created_at
            /\ sortBy[t] = "oldest" => v[j].created_at <= v[j + 1].created_at
            /\ sortBy[t] = "az" => TitleAscending(v[j].title, v[j + 1].title)
       /\ \A j, k \in 1..Len(v) :
            j < k => \E m, n \in 1..Len(sorted) :
                       m < n /\ sorted[m] = v[j] /\ sorted[n] = v[k]

\* sorted by title and searched for "A": of three bookmarks two are listed,
\* the one titled "A" before the one titled "ab" that was saved later
C22_Witness ==
  /\ sortBy["t1"] = "az"
  /\ search["t1"] = <<"A">>
  /\ Len(bookmarks["t1"]) = MaxRows
  /\ Len(Listing("t1")) = 2
  /\ Listing("t1")[1].title = <<"A">>
  /\ Listing("t1")[2].title = <<"a", "b">>
  /\ Listing("t1")[1].created_at < Listing("t1")[2].created_at

C24_ChannelErrorIsAdvisory ==
  [][\A t \in Tabs :
       onChannelError(t)
         => /\ error'[t] = MsgRealtime
            /\ bookmarks' = bookmarks
            /\ deleteTarget' = deleteTarget
            /\ channel' = channel
            /\ tabChannel' = tabChannel
            /\ userId' = userId
            /\ loading' = loading
            /\ deleteLoading' = deleteLoading
            /\ addReq' = addReq
            /\ delReq' = delReq
            /\ reloads' = reloads
            /\ feedQ' = feedQ
            /\ tabQ' = tabQ
            /\ rows' = rows]_vars

\* the advisory message is shown over a listed bookmark; the form can be
\* submitted, the bookmark's Delete button works, and a message of another
\* tab waits to be turned into a reload
C24_Witness ==
  /\ error["t1"] = MsgRealtime
  /\ channel["t1"] = {FeedName("u1")}
  /\ bookmarks["t1"] # <<>>
  /\ tabQ["t1"] > 0
  /\ ENABLED handleAdd("t1", ValidTitle, ValidUrl)
  /\ ENABLED requestDelete("t1", 1)
  /\ ENABLED onTabMessage("t1")

\* C25: where BroadcastChannel does not exist a tab has no tab channel and
\* no message is ever queued for it; mounting, a successful create and a
\* successful delete show no error for that; the create still issues its
\* reload, the delete still takes the item off the list, and a change-feed
\* event still issues a reload.
C25_NoBroadcastNoError ==
  [][~bcSupported
       => \A t \in Tabs :
            /\ tabChannel'[t] = Closed
            /\ tabQ'[t] = 0
            /\ (\E u \in Users : Mount(t, u))
                 => error'[t] = error[t] /\ channel'[t] = {FeedName(userId'[t])}
            /\ handleAddDone(t)
                 => /\ reloads'[t] = Append(reloads[t], Request(session))
                    /\ error'[t] = error[t]
            /\ handleDeleteDone(t)
                 => /\ delReq[t].id \notin Ids(bookmarks'[t])
                    /\ Ids(bookmarks'[t]) = Ids(bookmarks[t]) \ {delReq[t].id}
                    /\ error'[t] = error[t]
            /\ onFeedEvent(t)
                 => reloads'[t] = Append(reloads[t], Request(session))]_vars

\* without BroadcastChannel a bookmark was saved and deleted again: the
\* list is empty, a reload is in flight and no error is shown
C25_Witness ==
  /\ ~bcSupported
  /\ userId["t1"] = "u1"
  /\ nextId = 2
  /\ rows = {}
  /\ bookmarks["t1"] = <<>>
  /\ deleteTarget["t1"] = NoTarget
  /\ delReq["t1"] = Idle
  /\ addReq["t1"] = Idle
  /\ Len(reloads["t1"]) = 1
  /\ feedQ["t1"] = 0
  /\ error["t1"] = None

\* C26: whatever has failed before, a change-feed event, a tab message and a
\* successful create each issue a new select, and a select that is answered
\* with data replaces the list; a failed reload closes nothing, and after a
\* rejected create or delete the form or the dialog is free again for the
\* same request.
C26_NoErrorIsFatal ==
  [][\A t \in Tabs :
       /\ (onFeedEvent(t) \/ onTabMessage(t) \/ handleAddDone(t))
            => reloads'[t] = Append(reloads[t], Request(session))
       /\ \A i \in 1..MaxInFlight :
            /\ loadBookmarksDone(t, i) => bookmarks'[t] = reloads[t][i].data
            /\ loadBookmarksFailed(t, i)
                 => /\ channel'[t] = channel[t] /\ channel[t] # Closed
                    /\ tabChannel'[t] = tabChannel[t]
                    /\ loading'[t] = loading[t]
                    /\ deleteLoading'[t] = deleteLoading[t]
       /\ handleAddRejected(t)
            => ~loading'[t] /\ addReq'[t] = Idle /\ userId'[t] = userId[t]
       /\ handleDeleteRejected(t)
            => /\ ~deleteLoading'[t]
               /\ delReq'[t] = Idle
               /\ deleteTarget'[t] = deleteTarget[t]
               /\ deleteTarget[t] # NoTarget]_vars

\* a reload has failed and its message is still shown; a later reload was
\* answered and the list holds what the table holds; Save and Delete work
C26_Witness ==
  /\ error["t1"] = MsgFetch
  /\ lastLoad["t1"] = "ok"
  /\ bookmarks["t1"] # <<>>
  /\ bookmarks["t1"] = SelectAll("u1")
  /\ ENABLED handleAddQuiet("t1", ValidTitle, ValidUrl)
  /\ ENABLED requestDelete("t1", 1)

C29_FeedFiltered ==
  [][\A t \in Tabs :
       (/\ userId[t] # None
        /\ rows' # rows
        /\ \A r \in (rows \ rows') \cup (rows' \ rows) : r.user_id # userId[t])
         => feedQ'[t] = feedQ[t]]_vars

\* C30: a bookmark whose delete the tab has completed (its row is gone from
\* the table and the tab awaits no delete of it) is not in the tab's list, in
\* every reachable state, whatever reloads were in flight meanwhile.
C30_DeletedStaysGone ==
  \A t \in Tabs : \A id \in 1..MaxRows :
    (/\ userId[t] # None
     /\ \A r \in rows : r.id # id
     /\ delReq[t].stage = "idle")
      => id \notin Ids(bookmarks[t])

\* C31: whenever the confirm dialog holds a bookmark, a bookmark with that id
\* is in the tab's list, in every reachable state.
C31_TargetListed ==
  \A t \in Tabs :
    deleteTarget[t] # NoTarget => deleteTarget[t].id \in Ids(bookmarks[t])

\* C32: a tab awaits at most one delete: the dialog's Delete and Cancel act
\* only while no delete is awaited, the request carries the id of the bookmark
\* the dialog holds, an awaited request keeps its id until it is answered
\* while the tab shows it as loading, and a successful delete removes from the
\* list the id of its request and nothing else, an id the table no longer has.
C32_OneDeleteInFlight ==
  [][\A t \in Tabs :
       /\ handleDelete(t)
            => /\ delReq[t].stage = "idle"
               /\ delReq'[t].stage = "sent"
               /\ delReq'[t].id = deleteTarget[t].id
       /\ cancelDelete(t) => delReq[t].stage = "idle"
       /\ delReq[t].stage # "idle"
            => /\ deleteLoading[t]
               /\ delReq'[t].stage # "idle" => delReq'[t].id = delReq[t].id
       /\ handleDeleteDone(t)
            => /\ bookmarks'[t] = FilterOut(bookmarks[t], delReq[t].id)
               /\ \A id \in Ids(bookmarks[t]) \ Ids(bookmarks'[t]) :
                    /\ id = delReq[t].id
                    /\ \A r \in rows : r.id # id]_vars

\* the first delete of the tab has succeeded: the list lost the bookmark the
\* table lost, while the feed event of that delete is still to be handled
C32_Witness ==
  /\ userId["t1"] = "u1"
  /\ delReq["t1"].stage = "idle"
  /\ ~deleteLoading["t1"]
  /\ deleteTarget["t1"] = NoTarget
  /\ Cardinality(rows) = MaxRows - 1
  /\ Len(bookmarks["t1"]) = MaxRows - 1
  /\ Ids(bookmarks["t1"]) = { r.id : r \in rows }
  /\ reloads["t1"] = <<>>
  /\ feedQ["t1"] = 1

\* C33: the bookmarks a tab holds are in the order of the store, newest
\* first, before and after every step; a change of the sort mode or of the
\* search text leaves them as they are.
C33_ItemsNewestFirst ==
  [][\A t \in Tabs :
       /\ \A j \in 1..(Len(bookmarks[t]) - 1) :
            bookmarks[t][j].created_at >= bookmarks[t][j + 1].created_at
       /\ \A j \in 1..(Len(bookmarks'[t]) - 1) :
            bookmarks'[t][j].created_at >= bookmarks'[t][j + 1].created_at
       /\ (search'[t] # search[t] \/ sortBy'[t] # sortBy[t])
            => bookmarks'[t] = bookmarks[t]]_vars

\* after a reload and the delete of a bookmark in the middle the tab holds
\* the newest bookmark first and the oldest last, while its listing is
\* sorted oldest first
C33_Witness ==
  /\ sortBy["t1"] = "oldest"
  /\ search["t1"] = SeedTitle
  /\ Len(bookmarks["t1"]) = MaxRows - 1
  /\ bookmarks["t1"][1].created_at = MaxRows
  /\ bookmarks["t1"][MaxRows - 1].created_at = 1
  /\ Listing("t1")[1].created_at = 1
  /\ delReq["t1"].stage = "idle"
  /\ Cardinality(rows) = MaxRows - 1
  /\ lastLoad["t1"] = "ok"

\* C34: when signOut reports an error the tab shows the sign-out error and
\* stays as it was: same user, same session, no refresh, the same bookmarks,
\* requests, subscription and tab channel; the Sign out button is enabled
\* again.
C34_FailedSignOutKeepsTab ==
  [][\A t \in Tabs :
       handleSignOutFailed(t)
         => /\ error'[t] = MsgSignOut
            /\ userId' = userId /\ userId[t] # None
            /\ session' = session
            /\ refreshing' = refreshing
            /\ bookmarks' = bookmarks
            /\ reloads' = reloads
            /\ channel' = channel /\ channel[t] # Closed
            /\ tabChannel' = tabChannel
            /\ feedQ' = feedQ /\ tabQ' = tabQ
            /\ rows' = rows
            /\ ~signingOut'[t]]_vars

\* the tab shows the sign-out error over the bookmark it had loaded, is still
\* subscribed as its user, and Sign out can be pressed again
C34_Witness ==
  /\ error["t1"] = MsgSignOut
  /\ userId["t1"] = "u1"
  /\ session = "u1"
  /\ ~signingOut["t1"]
  /\ ~refreshing["t1"]
  /\ Len(bookmarks["t1"]) = 1
  /\ channel["t1"] = {FeedName("u1")}
  /\ ENABLED handleSignOut("t1")

====
